---- MODULE Spec2Model ----
(***************************************************************************)
(* Per-tenant URL resolver cache of djaodjin-multitier                     *)
(* (multitier/urlresolvers.py).                                            *)
(*                                                                         *)
(* Every resolver keeps three caches (_reverse_dict, _namespace_dict,      *)
(* _app_dict) keyed by the path prefix of the site that is current on the  *)
(* calling thread.  The accessors reverse_dict / namespace_dict / app_dict *)
(* fill them lazily by calling _populate, which walks url_patterns in      *)
(* reverse order, recursing into included resolvers.  The model keeps one  *)
(* call stack per thread so that the recursion, the thread-local           *)
(* 'populating' flag, uncaught exceptions and the interleaving of threads  *)
(* on the shared caches are all explicit.                                  *)
(*                                                                         *)
(* The two functions of the package that keep no state, url_sites          *)
(* (multitier/urlresolvers.py) and get_site_or_none (multitier/models.py), *)
(* are operators; SpecUrlSites and SpecSiteLookup apply each of them once  *)
(* to every input of a bounded set.                                        *)
(***************************************************************************)
EXTENDS Naturals, Sequences, FiniteSets, TLC

(***************************************************************************)
(* Bounds of the model.                                                    *)
(***************************************************************************)
\* Number of top-level accessor calls the threads may start, all together.
MaxCalls == 2

Threads == {"t1", "t2"}

(***************************************************************************)
(* The thread-local current site (thread_locals.get_current_site).         *)
(***************************************************************************)
None == [is_none |-> TRUE, path_prefix |-> ""]

Site(p) == [is_none |-> FALSE, path_prefix |-> p]

\* No site, a site without path prefix, two tenants, and a tenant whose
\* path_prefix is the string "_" (nothing in _get_path_prefix excludes it).
CurrentSites == {None, Site(""), Site("a"), Site("b"), Site("_")}

\* The sites of the runs in which two threads overlap.
ConcurrentSites == {None, Site("a")}

\* RegexURLResolver._get_path_prefix, for a given current site.
PathPrefixOf(current) ==
    IF ~current.is_none /\ current.path_prefix # ""
    THEN current.path_prefix
    ELSE "_"

PathPrefixes == {PathPrefixOf(s) : s \in CurrentSites}

(***************************************************************************)
(* The pattern graph.  A pattern is a sequence of tokens; "^" and "$" are  *)
(* the anchors.                                                            *)
(*                                                                         *)
(*   root  = url_sites(r'^', include(site_patterns(...)))                  *)
(*   site  = site_patterns(url(r'^$', home, {tab: leaf}, name='page'),     *)
(*                         url(r'^about/$', about, name='page'))           *)
(*   outer = [url(r'^o/$', o_view, {tab: leaf, id: one}),                  *)
(*            url_sites(r'^i/', include(inner, 'xapp', 'x'))]              *)
(*   inner = [url_sites(r'^back/', include(outer), {tab: incl})]           *)
(*                                                                         *)
(* outer and inner include each other: outer includes inner under a        *)
(* namespace, inner includes outer without one.                            *)
(***************************************************************************)
Resolvers == {"root", "site", "outer", "inner"}

\* Resolvers built by site_patterns (class SiteRegexURLResolver).
SiteResolvers == {"site"}

EmptyDict == <<>>

Leaf(regex, callback, name, default_args) ==
    [is_resolver |-> FALSE, regex |-> regex, callback |-> callback,
     name |-> name, default_args |-> default_args, resolver |-> "-"]

Include(r) ==
    [is_resolver |-> TRUE, regex |-> <<>>, callback |-> "-",
     name |-> "-", default_args |-> EmptyDict, resolver |-> r]

\* pattern.name is None
NoName == "-"

\* pattern.namespace / pattern.app_name is None
NoNamespace == "-"

url_patterns(r) ==
    CASE r = "root"  -> << Include("site") >>
      [] r = "site"  -> << Leaf(<<"^", "$">>, "home", "page", ("tab" :> "leaf")),
                           Leaf(<<"^", "about/", "$">>, "about", "page", EmptyDict) >>
      [] r = "outer" -> << Leaf(<<"^", "o/", "$">>, "o_view", NoName,
                                ("tab" :> "leaf") @@ ("id" :> "one")),
                           Include("inner") >>
      [] r = "inner" -> << Include("outer") >>

\* The regex a resolver was constructed with (RegexURLResolver.__init__).
resolver_regex(r) ==
    CASE r = "root"  -> <<"^">>
      [] r = "site"  -> <<>>
      [] r = "outer" -> <<"^", "back/">>
      [] r = "inner" -> <<"^", "i/">>

namespace(r) ==
    CASE r = "inner" -> "x"
      [] OTHER       -> NoNamespace

app_name(r) ==
    CASE r = "inner" -> "xapp"
      [] OTHER       -> "-"

default_kwargs(r) ==
    CASE r = "outer" -> ("tab" :> "incl")
      [] OTHER       -> EmptyDict

(***************************************************************************)
(* State.                                                                  *)
(***************************************************************************)
VARIABLES
    current_site,     \* thread -> the site set by the request layer
    populating,       \* thread -> resolvers whose _local.populating is True
    _reverse_dict,    \* resolver -> (path prefix -> table object)
    _namespace_dict,  \* resolver -> (path prefix -> table object)
    _app_dict,        \* resolver -> (path prefix -> table object)
    _populated,       \* resolver -> BOOLEAN
    tables,           \* heap: build -> the three dicts that build created
    stack,            \* thread -> call stack, innermost frame last
    ret,              \* thread -> outcome of the call that ended last
    nbuilds,          \* thread -> number of builds it has started
    calls,            \* number of top-level calls started so far
    url_call,         \* the arguments of a call of url_sites
    url_result,       \* what that call returned or raised
    site_query,       \* the Site table and the argument of get_site_or_none
    site_result       \* what that call returned

vars == <<current_site, populating, _reverse_dict, _namespace_dict, _app_dict,
          _populated, tables, stack, ret, nbuilds, calls,
          url_call, url_result, site_query, site_result>>

\* The state of the functions that take no part in the resolver's caches.
pure == <<url_call, url_result, site_query, site_result>>

caches == <<_reverse_dict, _namespace_dict, _app_dict>>

Accessors == {"reverse", "namespace", "app"}

\* The cache an accessor reads.
Cache(which) ==
    CASE which = "reverse"   -> _reverse_dict
      [] which = "namespace" -> _namespace_dict
      [] which = "app"       -> _app_dict

\* RegexURLResolver._get_path_prefix on thread t.
_get_path_prefix(t) == PathPrefixOf(current_site[t])

NoBuild == <<"-", 0>>

\* ret[t] when no call of t has ended yet, or a call is under way that has
\* not handed a value to its caller.
NoRet == [status |-> "none", self |-> "-", which |-> "-", path_prefix |-> "-",
          b |-> NoBuild, populate_called |-> FALSE]

\* An accessor returned table object b (lines 125, 132, 139).
Returned(r, which, path_prefix, b, called) ==
    [status |-> "value", self |-> r, which |-> which,
     path_prefix |-> path_prefix, b |-> b, populate_called |-> called]

\* The call of t ended with an exception that reached its caller.
Raised(r, which, path_prefix, called) ==
    [status |-> "raised", self |-> r, which |-> which,
     path_prefix |-> path_prefix, b |-> NoBuild, populate_called |-> called]

(***************************************************************************)
(* Route registration: url_sites.  The module defines one of two functions *)
(* of that name, depending on whether django.urls.resolvers.RegexPattern   *)
(* can be imported.  A view is given by its Python type and, for a string, *)
(* a list or a tuple, by its items.                                        *)
(***************************************************************************)
View(type, items) == [type |-> type, items |-> items]

IncludeTuple == <<"urlconf", "app", "ns">>

Views ==
    { View("NoneType", <<>>), View("function", <<>>), View("object", <<>>),
      View("str", <<>>), View("str", <<"views.home">>),
      View("list", <<>>), View("list", <<"urlconf">>), View("list", IncludeTuple),
      View("tuple", <<>>), View("tuple", <<"urlconf", "app">>),
      View("tuple", IncludeTuple), View("tuple", <<"urlconf", "app", "ns", "x">>) }

\* The calls of url_sites: the build, then the arguments.
UrlCalls ==
    [has_RegexPattern : BOOLEAN, regex : {"^", "^x/$"}, view : Views,
     kwargs : {"None", "kwargs"}, name : {"None", "name"},
     prefix : {"", "pkg"}]

NoUrlCall ==
    [has_RegexPattern |-> TRUE, regex |-> "-", view |-> View("-", <<>>),
     kwargs |-> "-", name |-> "-", prefix |-> "-"]

\* bool(view)
Truthy(view) ==
    CASE view.type = "NoneType"                -> FALSE
      [] view.type \in {"str", "list", "tuple"} -> Len(view.items) > 0
      [] OTHER                                  -> TRUE

IsListOrTuple(view) == view.type \in {"list", "tuple"}

Callable(view) == view.type = "function"

NoUrlResult ==
    [kind |-> "-", exc |-> "-", regex |-> "-", view |-> View("-", <<>>),
     kwargs |-> "-", name |-> "-", app_name |-> "-", namespace |-> "-"]

UrlRaise(exc) == [NoUrlResult EXCEPT !.kind = "raise", !.exc = exc]

\* A RegexURLPattern(regex, view, kwargs, name).
UrlPattern(regex, view, kwargs, name) ==
    [NoUrlResult EXCEPT !.kind = "pattern", !.regex = regex, !.view = view,
                        !.kwargs = kwargs, !.name = name]

\* A RegexURLResolver(regex, urlconf, kwargs, app_name, namespace).
UrlResolver(regex, urlconf, kwargs, app, ns) ==
    [NoUrlResult EXCEPT !.kind = "resolver", !.regex = regex,
                        !.view = View("module", <<urlconf>>),
                        !.kwargs = kwargs, !.app_name = app, !.namespace = ns]

\* url_sites when RegexPattern is imported (lines 171-194).  The unpacking
\* of line 180 raises ValueError unless the list or tuple has three items.
url_sites_RegexPattern(c) ==
    IF ~Truthy(c.view) THEN UrlRaise("ImproperlyConfigured")
    ELSE IF IsListOrTuple(c.view)
    THEN IF Len(c.view.items) = Len(IncludeTuple)
         THEN UrlResolver(c.regex, c.view.items[1], c.kwargs,
                          c.view.items[2], c.view.items[3])
         ELSE UrlRaise("ValueError")
    ELSE IF Callable(c.view)
    THEN UrlPattern(c.regex, c.view, c.kwargs, c.name)
    ELSE UrlRaise("TypeError")

\* url_sites when the import fails (lines 197-215).  view[0] raises
\* IndexError on an empty list or tuple; the resolver takes regex, urlconf,
\* kwargs and at most two more positional arguments.
url_sites_legacy(c) ==
    IF IsListOrTuple(c.view)
    THEN LET n == Len(c.view.items)
         IN  IF n = 0 THEN UrlRaise("IndexError")
             ELSE IF n > Len(IncludeTuple) THEN UrlRaise("TypeError")
             ELSE UrlResolver(c.regex, c.view.items[1], c.kwargs,
                              IF n >= 2 THEN c.view.items[2] ELSE "None",
                              IF n >= 3 THEN c.view.items[3] ELSE "None")
    ELSE IF c.view.type = "str" /\ ~Truthy(c.view)
    THEN UrlRaise("ImproperlyConfigured")
    ELSE IF c.view.type = "str" /\ c.prefix # ""
    THEN UrlPattern(c.regex, View("str", <<c.prefix, ".">> \o c.view.items),
                    c.kwargs, c.name)
    ELSE UrlPattern(c.regex, c.view, c.kwargs, c.name)

\* Lines 168-196: the try / except ImportError that picks the definition.
url_sites(c) ==
    IF c.has_RegexPattern THEN url_sites_RegexPattern(c) ELSE url_sites_legacy(c)

(***************************************************************************)
(* Site lookup: models.get_site_or_none.  The Site table is given by its   *)
(* rows, one per primary key; the database decides where NULL sorts.       *)
(***************************************************************************)
\* Number of rows the Site table may hold.
MaxSites == 3

Null == "NULL"

Subdomains == {"s", "t"}

\* Site.domain is nullable and may be blank.
Domains == {Null, "", "a.com", "z.com"}

NoRow == [present |-> FALSE, subdomain |-> "-", domain |-> Null]

Rows == {NoRow} \cup [present : {TRUE}, subdomain : Subdomains, domain : Domains]

\* The lookups: the rows by primary key, the argument, and whether the
\* database sorts NULL above every value (PostgreSQL, Oracle) or below
\* (SQLite, MySQL).
SiteQueries ==
    [rows : [1..MaxSites -> Rows], subdomain : Subdomains,
     null_is_largest : BOOLEAN]

NoSiteQuery ==
    [rows |-> [k \in 1..MaxSites |-> NoRow], subdomain |-> "-",
     null_is_largest |-> FALSE]

NoSiteResult == [kind |-> "-", pk |-> 0]

SiteNone == [kind |-> "None", pk |-> 0]

SiteRow(pk) == [kind |-> "Site", pk |-> pk]

\* The place of a domain in the ascending order of the database.
DomainOrder(q, d) ==
    CASE d = Null    -> IF q.null_is_largest THEN 4 ELSE 0
      [] d = ""      -> 1
      [] d = "a.com" -> 2
      [] d = "z.com" -> 3

\* filter(subdomain=subdomain)
Matching(q) ==
    {k \in 1..MaxSites : q.rows[k].present /\ q.rows[k].subdomain = q.subdomain}

\* order_by('-domain', '-pk'): row k comes no later than row j.
SortsBefore(q, k, j) ==
    \/ DomainOrder(q, q.rows[k].domain) > DomainOrder(q, q.rows[j].domain)
    \/ /\ q.rows[k].domain = q.rows[j].domain
       /\ k >= j

\* Lines 140-141: filter(...).order_by('-domain', '-pk').first()
get_site_or_none(q) ==
    IF Matching(q) = {} THEN SiteNone
    ELSE SiteRow(CHOOSE k \in Matching(q) :
                     \A j \in Matching(q) : SortsBefore(q, k, j))

\* The state of the resolvers before any request.
InitResolvers ==
    /\ current_site = [t \in Threads |-> None]
    /\ populating = [t \in Threads |-> {}]
    /\ _reverse_dict = [r \in Resolvers |-> EmptyDict]
    /\ _namespace_dict = [r \in Resolvers |-> EmptyDict]
    /\ _app_dict = [r \in Resolvers |-> EmptyDict]
    /\ _populated = [r \in Resolvers |-> FALSE]
    /\ tables = EmptyDict
    /\ stack = [t \in Threads |-> <<>>]
    /\ ret = [t \in Threads |-> NoRet]
    /\ nbuilds = [t \in Threads |-> 0]
    /\ calls = 0

Init ==
    /\ InitResolvers
    /\ url_call = NoUrlCall /\ url_result = NoUrlResult
    /\ site_query = NoSiteQuery /\ site_result = NoSiteResult

(***************************************************************************)
(* Pure helpers of the walk.                                               *)
(***************************************************************************)
\* django.utils.regex_helper.normalize, reduced to what the tables keep of
\* it: the scan of the pattern ends at the first '$' (what follows it is
\* dropped) and every '^' before that is skipped.
normalize(p) ==
    LET ends == {k \in 1..Len(p) : p[k] = "$"}
        last == IF ends = {} THEN Len(p)
                ELSE (CHOOSE k \in ends : \A j \in ends : k <= j) - 1
    IN  SelectSeq(SubSeq(p, 1, last), LAMBDA tok : tok # "^")

\* p_pattern = pattern.regex.pattern, without a leading '^' (lines 75-77).
StripAnchor(p) == IF Len(p) > 0 /\ Head(p) = "^" THEN Tail(p) ELSE p

\* Changed SiteRegex: the regex of the site resolver ignores the prefix.
SiteRegexWithoutPrefix(path_prefix) == <<"^">>

\* SiteRegexURLResolver.regex for a path prefix (lines 151-157).
SiteRegex(path_prefix) ==
    IF path_prefix # "_" THEN <<"^", path_prefix, "/">> ELSE <<"^">>

\* resolver.regex.pattern as thread t reads it.
RegexPattern(t, r) ==
    IF r \in SiteResolvers THEN SiteRegex(_get_path_prefix(t))
    ELSE resolver_regex(r)

\* Changed DictUpdate: the keys of defaults are kept on collision.
DictUpdateKeepingDefaults(defaults, kwargs) == defaults @@ kwargs

\* dict(defaults, **kwargs): the keys of kwargs override those of defaults.
DictUpdate(defaults, kwargs) == kwargs @@ defaults

\* MultiValueDict.appendlist
appendlist(lookups, key, entry) ==
    IF key \in DOMAIN lookups
    THEN [lookups EXCEPT ![key] = Append(@, entry)]
    ELSE (key :> <<entry>>) @@ lookups

\* MultiValueDict.getlist
getlist(lookups, key) == IF key \in DOMAIN lookups THEN lookups[key] ELSE <<>>

\* Lines 108-113: a leaf is registered under its callback and, when it has
\* one, under its name.
LeafLookups(lookups, pattern) ==
    LET p_pattern == StripAnchor(pattern.regex)
        entry == [bits |-> normalize(p_pattern), pat |-> p_pattern,
                  defaults |-> pattern.default_args]
        by_callback == appendlist(lookups, pattern.callback, entry)
    IN  IF pattern.name # NoName
        THEN appendlist(by_callback, pattern.name, entry)
        ELSE by_callback

\* Lines 89-96: the entry a parent keeps of one entry of an included child.
MergedEntry(e, parent_pat, p_pattern, kwargs) ==
    [bits |-> normalize(parent_pat \o e.pat), pat |-> p_pattern \o e.pat,
     defaults |-> DictUpdate(e.defaults, kwargs)]

\* Lines 86-97: for every name of child_names, the entries child_lookups
\* lists under it are appended to the parent's list of that name.
MergeLookups(lookups, child_names, child_lookups, parent_pat, kwargs) ==
    LET p_pattern == StripAnchor(parent_pat)
        added(name) ==
            LET l == getlist(child_lookups, name)
            IN  [k \in 1..Len(l) |-> MergedEntry(l[k], parent_pat, p_pattern, kwargs)]
        names == {n \in child_names : Len(getlist(child_lookups, n)) > 0}
    IN  [n \in DOMAIN lookups \cup names |->
            getlist(lookups, n) \o (IF n \in names THEN added(n) ELSE <<>>)]

\* Lines 98-101.
MergeNamespaceDict(namespaces, child_namespaces, parent_pat) ==
    LET p_pattern == StripAnchor(parent_pat)
    IN  [n \in DOMAIN child_namespaces |->
            [prefix |-> p_pattern \o child_namespaces[n].prefix,
             resolver |-> child_namespaces[n].resolver]] @@ namespaces

\* Lines 102-103.
MergeAppDict(apps, child_apps) ==
    [a \in DOMAIN apps \cup DOMAIN child_apps |->
        (IF a \in DOMAIN apps THEN apps[a] ELSE <<>>)
        \o (IF a \in DOMAIN child_apps THEN child_apps[a] ELSE <<>>)]

\* Lines 80-83: a namespaced include is registered, not merged.
RegisterNamespace(tbl, t, child) ==
    LET p_pattern == StripAnchor(RegexPattern(t, child))
        ns == (namespace(child) :> [prefix |-> p_pattern, resolver |-> child])
              @@ tbl.namespaces
        ap == IF app_name(child) # "-"
              THEN (app_name(child) :>
                        Append(IF app_name(child) \in DOMAIN tbl.apps
                               THEN tbl.apps[app_name(child)] ELSE <<>>,
                               namespace(child))) @@ tbl.apps
              ELSE tbl.apps
    IN  [tbl EXCEPT !.namespaces = ns, !.apps = ap]

(***************************************************************************)
(* Call stacks.                                                            *)
(***************************************************************************)
\* An accessor that found its prefix missing and called _populate: it is
\* left to do the subscript of line 125 (132, 139).
AccessorFrame(r, which, path_prefix) ==
    [kind |-> "accessor", self |-> r, which |-> which, pc |-> "return",
     path_prefix |-> path_prefix, i |-> 0, b |-> NoBuild]

PopulateFrame(r) ==
    [kind |-> "populate", self |-> r, which |-> "-", pc |-> "enter",
     path_prefix |-> "-", i |-> 0, b |-> NoBuild]

Top(t) == stack[t][Len(stack[t])]

Running(t) == Len(stack[t]) > 0

AtPc(t, kind, pc) == Running(t) /\ Top(t).kind = kind /\ Top(t).pc = pc

ReplaceTop(stk, f) == [stk EXCEPT ![Len(stk)] = f]

Pop(stk) == SubSeq(stk, 1, Len(stk) - 1)

\* Changed IsPopulating: the flag is never seen set.
IsPopulatingNever(t, r) == FALSE

\* Changed IsPopulating: the flag is an attribute of the resolver, shared by
\* the threads.
IsPopulatingOnAnyThread(t, r) == \E u \in Threads : r \in populating[u]

\* getattr(self._local, 'populating', False) on thread t
IsPopulating(t, r) == r \in populating[t]

\* Changed PatternAt: url_patterns is walked in declaration order.
PatternAtInDeclarationOrder(f) == url_patterns(f.self)[f.i]

\* The current pattern of a walk: url_patterns is walked in reverse.
PatternAt(f) ==
    LET ps == url_patterns(f.self) IN ps[Len(ps) + 1 - f.i]

\* The for loop of line 71 has run out of patterns.
WalkDone(f) == f.i > Len(url_patterns(f.self))

\* Changed Hit: the accessor never finds its prefix.
HitNever(t, r, which) == FALSE

\* Line 123 (130, 137): the prefix of thread t is a key of the cache.
Hit(t, r, which) == _get_path_prefix(t) \in DOMAIN Cache(which)[r]

\* Lines 122-125 (129-132, 136-139): thread t, whose frames are stk, reads an
\* accessor of resolver r.  On a hit the accessor returns the stored table
\* to its caller; keys are never removed, so the check of line 123 and the
\* subscript of line 125 are one step.  On a miss it calls _populate and
\* still has the subscript to do when _populate returns.
ReadAccessor(t, stk, r, which) ==
    LET path_prefix == _get_path_prefix(t)
    IN  IF Hit(t, r, which)
        THEN /\ stack' = [stack EXCEPT ![t] = stk]
             /\ ret' = [ret EXCEPT ![t] =
                    Returned(r, which, path_prefix,
                             Cache(which)[r][path_prefix], FALSE)]
        ELSE /\ stack' = [stack EXCEPT ![t] =
                    stk \o << AccessorFrame(r, which, path_prefix),
                              PopulateFrame(r) >>]
             /\ ret' = [ret EXCEPT ![t] = NoRet]

\* Lines 104-105: the child is populated unless this thread is populating it.
InvokeChildPopulate(stk, t, child) ==
    IF ~IsPopulating(t, child) THEN Append(stk, PopulateFrame(child)) ELSE stk

(***************************************************************************)
(* Actions.                                                                *)
(***************************************************************************)
\* The request layer sets the current site of an idle thread.
SetCurrentSite(t, s) ==
    /\ ~Running(t)
    /\ calls < MaxCalls
    /\ s # current_site[t]
    /\ current_site' = [current_site EXCEPT ![t] = s]
    /\ UNCHANGED <<populating, caches, _populated, tables, stack, ret,
                   nbuilds, calls>>
    /\ UNCHANGED pure

\* A caller reads resolver.reverse_dict / namespace_dict / app_dict.
CallAccessor(t, r, which) ==
    /\ ~Running(t)
    /\ calls < MaxCalls
    /\ calls' = calls + 1
    /\ ReadAccessor(t, <<>>, r, which)
    /\ UNCHANGED <<current_site, populating, caches, _populated, tables,
                   nbuilds>>
    /\ UNCHANGED pure

\* Changed PopulateReentrant: the early return resets the flag, as line 118
\* does.
PopulateReentrantResetsFlag(t) ==
    /\ AtPc(t, "populate", "enter")
    /\ Top(t).self \in populating[t]
    /\ populating' = [populating EXCEPT ![t] = @ \ {Top(t).self}]
    /\ stack' = [stack EXCEPT ![t] = Pop(@)]
    /\ UNCHANGED <<current_site, caches, _populated, tables, ret, nbuilds,
                   calls>>
    /\ UNCHANGED pure

\* Lines 64-65: _populate called while this thread is populating the
\* resolver returns at once.
PopulateReentrant(t) ==
    /\ AtPc(t, "populate", "enter")
    /\ IsPopulating(t, Top(t).self)
    /\ stack' = [stack EXCEPT ![t] = Pop(@)]
    /\ UNCHANGED <<current_site, populating, caches, _populated, tables, ret,
                   nbuilds, calls>>
    /\ UNCHANGED pure

\* Changed NewTables: the reverse table of a build starts from the entries
\* already stored under its prefix.
NewTablesOverStoredLookups(r, path_prefix) ==
    [lookups |-> IF path_prefix \in DOMAIN _reverse_dict[r]
                 THEN tables[_reverse_dict[r][path_prefix]].lookups
                 ELSE EmptyDict,
     namespaces |-> EmptyDict, apps |-> EmptyDict]

\* Lines 67-69: the three dicts a build starts from.
NewTables(r, path_prefix) ==
    [lookups |-> EmptyDict, namespaces |-> EmptyDict, apps |-> EmptyDict]

\* Changed StoreKey: every build stores under the same key.
StoreKeyFixed(f) == "_"

\* Lines 114-116: the key a build stores its tables under is the prefix it
\* read at line 70.
StoreKey(f) == f.path_prefix

\* Lines 64-70: _populate sets the flag, creates its three dicts and reads
\* the path prefix.
PopulateEnter(t) ==
    /\ AtPc(t, "populate", "enter")
    /\ ~IsPopulating(t, Top(t).self)
    /\ LET b == <<t, nbuilds[t] + 1>>
       IN  /\ populating' = [populating EXCEPT ![t] = @ \cup {Top(t).self}]
           /\ nbuilds' = [nbuilds EXCEPT ![t] = @ + 1]
           /\ tables' = (b :> NewTables(Top(t).self, _get_path_prefix(t)))
                         @@ tables
           /\ stack' = [stack EXCEPT ![t] = ReplaceTop(@,
                           [Top(t) EXCEPT !.pc = "loop", !.i = 1, !.b = b,
                                          !.path_prefix = _get_path_prefix(t)])]
    /\ UNCHANGED <<current_site, caches, _populated, ret, calls>>
    /\ UNCHANGED pure

\* Lines 72-77 and 107-113: the walk meets a leaf.
WalkLeaf(t) ==
    /\ AtPc(t, "populate", "loop")
    /\ ~WalkDone(Top(t))
    /\ ~PatternAt(Top(t)).is_resolver
    /\ tables' = [tables EXCEPT ![Top(t).b].lookups =
                      LeafLookups(@, PatternAt(Top(t)))]
    /\ stack' = [stack EXCEPT ![t] = ReplaceTop(@, [Top(t) EXCEPT !.i = @ + 1])]
    /\ UNCHANGED <<current_site, populating, caches, _populated, ret, nbuilds,
                   calls>>
    /\ UNCHANGED pure

\* Lines 75-83 and 104-106: the walk meets an include with a namespace.
WalkNamespaced(t) ==
    /\ AtPc(t, "populate", "loop")
    /\ ~WalkDone(Top(t))
    /\ PatternAt(Top(t)).is_resolver
    /\ namespace(PatternAt(Top(t)).resolver) # NoNamespace
    /\ LET child == PatternAt(Top(t)).resolver
       IN  /\ tables' = [tables EXCEPT ![Top(t).b] = RegisterNamespace(@, t, child)]
           /\ stack' = [stack EXCEPT ![t] =
                   InvokeChildPopulate(
                       ReplaceTop(@, [Top(t) EXCEPT !.i = @ + 1]), t, child)]
    /\ UNCHANGED <<current_site, populating, caches, _populated, ret, nbuilds,
                   calls>>
    /\ UNCHANGED pure

\* Lines 75-86: the walk meets an include without namespace and reads the
\* child's reverse_dict.
WalkInclude(t) ==
    /\ AtPc(t, "populate", "loop")
    /\ ~WalkDone(Top(t))
    /\ PatternAt(Top(t)).is_resolver
    /\ namespace(PatternAt(Top(t)).resolver) = NoNamespace
    /\ ReadAccessor(t, ReplaceTop(stack[t], [Top(t) EXCEPT !.pc = "merge_reverse"]),
                    PatternAt(Top(t)).resolver, "reverse")
    /\ UNCHANGED <<current_site, populating, caches, _populated, tables,
                   nbuilds, calls>>
    /\ UNCHANGED pure

\* Lines 86-99: the names of the child's reverse_dict are walked, the
\* entries of each name are read from the child's reverse_dict again (a
\* cache hit by now) and merged; then the child's namespace_dict is read.
MergeReverse(t) ==
    /\ AtPc(t, "populate", "merge_reverse")
    /\ LET f == Top(t)
           child == PatternAt(f).resolver
           names == DOMAIN tables[ret[t].b].lookups
           again == tables[_reverse_dict[child][f.path_prefix]].lookups
       IN  /\ tables' = [tables EXCEPT ![f.b].lookups =
                   MergeLookups(@, names, again, RegexPattern(t, child),
                                default_kwargs(child))]
           /\ ReadAccessor(t, ReplaceTop(stack[t], [f EXCEPT !.pc = "merge_namespace"]),
                           child, "namespace")
    /\ UNCHANGED <<current_site, populating, caches, _populated, nbuilds,
                   calls>>
    /\ UNCHANGED pure

\* Lines 98-102: the child's namespaces are merged; then its app_dict is read.
MergeNamespaces(t) ==
    /\ AtPc(t, "populate", "merge_namespace")
    /\ LET f == Top(t)
           child == PatternAt(f).resolver
       IN  /\ tables' = [tables EXCEPT ![f.b].namespaces =
                   MergeNamespaceDict(@, tables[ret[t].b].namespaces,
                                      RegexPattern(t, child))]
           /\ ReadAccessor(t, ReplaceTop(stack[t], [f EXCEPT !.pc = "merge_app"]),
                           child, "app")
    /\ UNCHANGED <<current_site, populating, caches, _populated, nbuilds,
                   calls>>
    /\ UNCHANGED pure

\* Lines 102-106: the child's apps are merged; then the child is populated.
MergeApps(t) ==
    /\ AtPc(t, "populate", "merge_app")
    /\ LET f == Top(t)
           child == PatternAt(f).resolver
       IN  /\ tables' = [tables EXCEPT ![f.b].apps =
                   MergeAppDict(@, tables[ret[t].b].apps)]
           /\ stack' = [stack EXCEPT ![t] =
                   InvokeChildPopulate(
                       ReplaceTop(@, [f EXCEPT !.pc = "loop", !.i = @ + 1]),
                       t, child)]
    /\ UNCHANGED <<current_site, populating, caches, _populated, ret, nbuilds,
                   calls>>
    /\ UNCHANGED pure

\* Changed StoreReverse: the reverse table is published while the walk is
\* still filling it.
StoreReverseBeforeWalkEnds(t) ==
    /\ AtPc(t, "populate", "loop")
    /\ _reverse_dict' = [_reverse_dict EXCEPT ![Top(t).self] =
                            (Top(t).path_prefix :> Top(t).b) @@ @]
    /\ stack' = [stack EXCEPT ![t] =
                     IF WalkDone(Top(t))
                     THEN ReplaceTop(@, [Top(t) EXCEPT !.pc = "store_namespace"])
                     ELSE @]
    /\ UNCHANGED <<current_site, populating, _namespace_dict, _app_dict,
                   _populated, tables, ret, nbuilds, calls>>
    /\ UNCHANGED pure

\* Changed StoreReverse: the reverse table is not stored.
StoreReverseOmitted(t) ==
    /\ AtPc(t, "populate", "loop")
    /\ WalkDone(Top(t))
    /\ stack' = [stack EXCEPT ![t] =
                     ReplaceTop(@, [Top(t) EXCEPT !.pc = "store_namespace"])]
    /\ UNCHANGED <<current_site, populating, caches, _populated, tables, ret,
                   nbuilds, calls>>
    /\ UNCHANGED pure

\* Line 114.
StoreReverse(t) ==
    /\ AtPc(t, "populate", "loop")
    /\ WalkDone(Top(t))
    /\ _reverse_dict' = [_reverse_dict EXCEPT ![Top(t).self] =
                            (StoreKey(Top(t)) :> Top(t).b) @@ @]
    /\ stack' = [stack EXCEPT ![t] =
                     ReplaceTop(@, [Top(t) EXCEPT !.pc = "store_namespace"])]
    /\ UNCHANGED <<current_site, populating, _namespace_dict, _app_dict,
                   _populated, tables, ret, nbuilds, calls>>
    /\ UNCHANGED pure

\* Changed StoreNamespace: the store keeps the key of this build only.
StoreNamespaceEvicting(t) ==
    /\ AtPc(t, "populate", "store_namespace")
    /\ _namespace_dict' = [_namespace_dict EXCEPT ![Top(t).self] =
                              (StoreKey(Top(t)) :> Top(t).b)]
    /\ stack' = [stack EXCEPT ![t] =
                     ReplaceTop(@, [Top(t) EXCEPT !.pc = "store_app"])]
    /\ UNCHANGED <<current_site, populating, _reverse_dict, _app_dict,
                   _populated, tables, ret, nbuilds, calls>>
    /\ UNCHANGED pure

\* Line 115.
StoreNamespace(t) ==
    /\ AtPc(t, "populate", "store_namespace")
    /\ _namespace_dict' = [_namespace_dict EXCEPT ![Top(t).self] =
                              (StoreKey(Top(t)) :> Top(t).b) @@ @]
    /\ stack' = [stack EXCEPT ![t] =
                     ReplaceTop(@, [Top(t) EXCEPT !.pc = "store_app"])]
    /\ UNCHANGED <<current_site, populating, _reverse_dict, _app_dict,
                   _populated, tables, ret, nbuilds, calls>>
    /\ UNCHANGED pure

\* Lines 116-118: the app table is stored, the flag is reset and _populate
\* returns.
StoreApp(t) ==
    /\ AtPc(t, "populate", "store_app")
    /\ _app_dict' = [_app_dict EXCEPT ![Top(t).self] =
                        (StoreKey(Top(t)) :> Top(t).b) @@ @]
    /\ _populated' = [_populated EXCEPT ![Top(t).self] = TRUE]
    /\ populating' = [populating EXCEPT ![t] = @ \ {Top(t).self}]
    /\ stack' = [stack EXCEPT ![t] = Pop(@)]
    /\ UNCHANGED <<current_site, _reverse_dict, _namespace_dict, tables, ret,
                   nbuilds, calls>>
    /\ UNCHANGED pure

\* Line 125 (132, 139) after _populate returned, when the prefix is a key:
\* the accessor returns the table stored under it.
AccessorReturn(t) ==
    /\ AtPc(t, "accessor", "return")
    /\ Top(t).path_prefix \in DOMAIN Cache(Top(t).which)[Top(t).self]
    /\ ret' = [ret EXCEPT ![t] =
                  Returned(Top(t).self, Top(t).which, Top(t).path_prefix,
                      Cache(Top(t).which)[Top(t).self][Top(t).path_prefix],
                      TRUE)]
    /\ stack' = [stack EXCEPT ![t] = Pop(@)]
    /\ UNCHANGED <<current_site, populating, caches, _populated, tables,
                   nbuilds, calls>>
    /\ UNCHANGED pure

\* Line 125 (132, 139) after _populate returned, when the prefix is no key
\* (_populate returned at line 65 without building): the subscript raises
\* KeyError.  Nothing in the module catches it: every frame of the thread is
\* unwound, and no frame has a handler that would reset a flag.
AccessorKeyError(t) ==
    /\ AtPc(t, "accessor", "return")
    /\ Top(t).path_prefix \notin DOMAIN Cache(Top(t).which)[Top(t).self]
    /\ ret' = [ret EXCEPT ![t] =
                  Raised(Top(t).self, Top(t).which, Top(t).path_prefix, TRUE)]
    /\ stack' = [stack EXCEPT ![t] = <<>>]
    /\ UNCHANGED <<current_site, populating, caches, _populated, tables,
                   nbuilds, calls>>
    /\ UNCHANGED pure

\* The steps of thread t once a call is under way.
Run(t) ==
    \/ PopulateReentrant(t)
    \/ PopulateEnter(t)
    \/ WalkLeaf(t)
    \/ WalkNamespaced(t)
    \/ WalkInclude(t)
    \/ MergeReverse(t)
    \/ MergeNamespaces(t)
    \/ MergeApps(t)
    \/ StoreReverse(t)
    \/ StoreNamespace(t)
    \/ StoreApp(t)
    \/ AccessorReturn(t)
    \/ AccessorKeyError(t)

\* Two threads serve requests for the sites of ConcurrentSites.  Threads are
\* interchangeable: the first request is the one of t1.
Next ==
    \E t \in Threads :
        \/ /\ t = "t1" \/ calls > 0
           /\ \/ \E s \in ConcurrentSites : SetCurrentSite(t, s)
              \/ \E r \in Resolvers, which \in Accessors : CallAccessor(t, r, which)
        \/ Run(t)

Spec == Init /\ [][Next]_vars

\* One thread serves requests for every site of CurrentSites.
NextSeq ==
    \/ \E s \in CurrentSites : SetCurrentSite("t1", s)
    \/ \E r \in Resolvers, which \in Accessors : CallAccessor("t1", r, which)
    \/ Run("t1")

SpecSeq == Init /\ [][NextSeq]_vars

\* A thread that is inside a call keeps running: nothing in the walk blocks.
FairSpecSeq == SpecSeq /\ WF_vars(Run("t1"))

(***************************************************************************)
(* Route registration and site lookup, each applied once to every input.   *)
(***************************************************************************)
resolver_vars == <<current_site, populating, _reverse_dict, _namespace_dict,
                   _app_dict, _populated, tables, stack, ret, nbuilds, calls>>

InitUrlSites ==
    /\ InitResolvers
    /\ url_call \in UrlCalls /\ url_result = NoUrlResult
    /\ site_query = NoSiteQuery /\ site_result = NoSiteResult

\* url_sites(regex, view, kwargs, name, prefix)
CallUrlSites ==
    /\ url_result = NoUrlResult
    /\ url_result' = url_sites(url_call)
    /\ UNCHANGED <<resolver_vars, url_call, site_query, site_result>>

SpecUrlSites == InitUrlSites /\ [][CallUrlSites]_vars

InitSiteLookup ==
    /\ InitResolvers
    /\ url_call = NoUrlCall /\ url_result = NoUrlResult
    /\ site_query \in SiteQueries /\ site_result = NoSiteResult

\* get_site_or_none(subdomain)
CallGetSiteOrNone ==
    /\ site_result = NoSiteResult
    /\ site_result' = get_site_or_none(site_query)
    /\ UNCHANGED <<resolver_vars, url_call, url_result, site_query>>

SpecSiteLookup == InitSiteLookup /\ [][CallGetSiteOrNone]_vars

(***************************************************************************)
(* Vocabulary of the properties.                                           *)
(***************************************************************************)
\* The frames of thread t that are builds past line 66.
Builds(t) ==
    {k \in 1..Len(stack[t]) :
        stack[t][k].kind = "populate" /\ stack[t][k].pc # "enter"}

\* Thread t has a build of resolver r under way.
Building(t, r) == \E k \in Builds(t) : stack[t][k].self = r

\* Thread t took a step.
Moves(t) == stack'[t] # stack[t] \/ ret'[t] # ret[t]

(***************************************************************************)
(* C1.  Each accessor calls _populate when the current prefix is missing   *)
(* from its cache and then returns the table stored under the prefix; on a *)
(* hit it returns the stored table without a build.  Stated for the miss:  *)
(* an accessor that has called _populate hands a table to its caller.  It  *)
(* fails when _populate returns at line 65 because the thread's flag is    *)
(* set (C6, C2): the subscript of line 125 then raises KeyError.           *)
(***************************************************************************)
C1_MissBuildsAndReturns ==
    \A t \in Threads :
        ret[t].populate_called =>
            /\ ret[t].status = "value"
            /\ ret[t].path_prefix \in DOMAIN Cache(ret[t].which)[ret[t].self]

(***************************************************************************)
(* C2.  When no _populate call of a thread is under way for a resolver,    *)
(* the thread's populating flag for that resolver is false, whether the    *)
(* calls ended by returning or by an exception.  It fails: line 118 is     *)
(* reached on the normal path only, nothing resets the flag when an        *)
(* exception unwinds _populate.                                            *)
(***************************************************************************)
C2_FlagResetOnEveryExit ==
    \A t \in Threads : \A r \in Resolvers :
        IsPopulating(t, r) => Building(t, r)

\* The thread that created table object b.
Owner(b) == b[1]

\* Key P of resolver r holds another table object in new than in old.
Replaced(old, new, r, P) == P \in DOMAIN old[r] /\ new[r][P] # old[r][P]

(***************************************************************************)
(* C3.  Of two threads that make a first-time accessor call for the same   *)
(* prefix on the same resolver only one stores tables: a table object      *)
(* stored under a prefix is never replaced by the build of another thread. *)
(* It fails: the populating flag is thread-local and the accessor's        *)
(* check-then-build (lines 122-124) holds no lock, so both threads walk    *)
(* and each stores its own tables at lines 114-116.                        *)
(***************************************************************************)
C3_NeverReplacedByOtherThread ==
    [][\A r \in Resolvers : \A P \in PathPrefixes :
        /\ Replaced(_reverse_dict, _reverse_dict', r, P)
               => Owner(_reverse_dict'[r][P]) = Owner(_reverse_dict[r][P])
        /\ Replaced(_namespace_dict, _namespace_dict', r, P)
               => Owner(_namespace_dict'[r][P]) = Owner(_namespace_dict[r][P])
        /\ Replaced(_app_dict, _app_dict', r, P)
               => Owner(_app_dict'[r][P]) = Owner(_app_dict[r][P])]_vars

(***************************************************************************)
(* C4.  No partially built table is reachable: a table object that a cache *)
(* holds, or that an accessor returned, is not the table of a build whose  *)
(* walk is still under way, and the content of a table object that a cache *)
(* holds never changes, under every interleaving of two threads.           *)
(***************************************************************************)
\* Table object b belongs to a build whose walk has not finished.
UnderConstruction(b) ==
    \E t \in Threads : \E k \in Builds(t) :
        /\ stack[t][k].b = b
        /\ \/ stack[t][k].pc \in {"merge_reverse", "merge_namespace", "merge_app"}
           \/ stack[t][k].pc = "loop" /\ ~WalkDone(stack[t][k])

Stored(which) == {Cache(which)[r][P] : <<r, P>> \in
                     {x \in Resolvers \X PathPrefixes : x[2] \in DOMAIN Cache(which)[x[1]]}}

C4_StoredTablesComplete ==
    /\ \A which \in Accessors : \A b \in Stored(which) : ~UnderConstruction(b)
    /\ \A t \in Threads : ret[t].status = "value" => ~UnderConstruction(ret[t].b)

C4_StoredTablesFrozen ==
    /\ \A b \in Stored("reverse") : tables'[b].lookups = tables[b].lookups
    /\ \A b \in Stored("namespace") : tables'[b].namespaces = tables[b].namespaces
    /\ \A b \in Stored("app") : tables'[b].apps = tables[b].apps

\* C4: no cache and no accessor result ever holds the table of a walk that
\* is under way, and no step changes the content of a stored table.
C4_NoPartialTable == []C4_StoredTablesComplete /\ [][C4_StoredTablesFrozen]_vars

\* One thread is in the middle of a walk while the other has been handed a
\* table of the same resolver for the same prefix.
C4_Witness ==
    \E t, u \in Threads : \E k \in Builds(t) :
        /\ t # u
        /\ UnderConstruction(stack[t][k].b)
        /\ stack[t][k].i > 1
        /\ ret[u].status = "value"
        /\ ret[u].self = stack[t][k].self
        /\ ret[u].path_prefix = stack[t][k].path_prefix

(***************************************************************************)
(* C5.  On one thread the build body runs at most once for a resolver and  *)
(* a prefix: a table stored under a prefix is never stored again, in       *)
(* particular not when a parent reaches a child that holds its tables.     *)
(* It fails: line 105 calls the child's _populate whenever the child is    *)
(* not being populated, and _populate never looks at the caches, so a      *)
(* child that was built at line 86 is built again at line 105.             *)
(***************************************************************************)
C5_BuiltOncePerPrefix ==
    [][\A r \in Resolvers : \A P \in PathPrefixes :
        /\ ~Replaced(_reverse_dict, _reverse_dict', r, P)
        /\ ~Replaced(_namespace_dict, _namespace_dict', r, P)
        /\ ~Replaced(_app_dict, _app_dict', r, P)]_vars

(***************************************************************************)
(* C6.  When the guard of line 64 fires for a resolver the thread is       *)
(* populating, the re-entrant call raises no error to its caller.  It      *)
(* fails: _populate returns silently, but the accessor that called it      *)
(* goes on to line 125 and raises KeyError, which ends the outer build.    *)
(***************************************************************************)
C6_ReentrantCallIsSilent ==
    \A t \in Threads :
        ret[t].status = "raised" => ~IsPopulating(t, ret[t].self)

(***************************************************************************)
(* C7.  A _populate call on a thread whose flag for the resolver is set    *)
(* returns at once: the caches, the flags, _populated and every table      *)
(* object, those of the outer build included, are what they were, and the  *)
(* frames below are untouched.  A build keeps the table object it created, *)
(* and what a store puts into a cache is the table object of the build     *)
(* that stores.                                                            *)
(***************************************************************************)
C7_ReentrantStep(t) ==
    /\ AtPc(t, "populate", "enter")
    /\ Top(t).self \in populating[t]
    /\ Moves(t)

StoredBy(old, new, t) ==
    \A r \in Resolvers :
        new[r] # old[r] =>
            /\ Running(t) /\ Top(t).kind = "populate" /\ Top(t).self = r
            /\ new[r] = (Top(t).path_prefix :> Top(t).b) @@ old[r]

\* C7: a _populate call made while the thread's flag for the resolver is set
\* only returns, every build keeps its table object, and a store puts the
\* table object of the storing build under the prefix of that build.
C7_ReentrantPopulateNoOp ==
    [][\A t \in Threads :
        /\ C7_ReentrantStep(t) =>
               /\ stack'[t] = Pop(stack[t])
               /\ UNCHANGED <<caches, populating, _populated, tables, ret>>
        /\ \A k \in Builds(t) :
               k <= Len(stack'[t]) => stack'[t][k].b = stack[t][k].b
        /\ Moves(t) =>
               /\ StoredBy(_reverse_dict, _reverse_dict', t)
               /\ StoredBy(_namespace_dict, _namespace_dict', t)
               /\ StoredBy(_app_dict, _app_dict', t)]_vars

\* A re-entrant _populate call has just returned to the accessor that made
\* it, inside a build of the same resolver, and the accessor finds a table
\* that another thread stored meanwhile: the outer build goes on to its end.
C7_Witness ==
    \E t \in Threads :
        /\ AtPc(t, "accessor", "return")
        /\ Building(t, Top(t).self)
        /\ IsPopulating(t, Top(t).self)
        /\ Top(t).path_prefix \in DOMAIN Cache(Top(t).which)[Top(t).self]

(***************************************************************************)
(* C8.  A call started by an accessor on one thread ends, by returning or  *)
(* by raising, also when resolvers include each other: the stack of a      *)
(* thread never holds more than one accessor frame and one _populate frame *)
(* per resolver plus the frame of a call that returns at line 65.          *)
(***************************************************************************)
MaxDepth == 2 * Cardinality(Resolvers) + 2

\* C8: the call stack of a thread is bounded by MaxDepth and every running
\* call of a thread ends.
C8_BuildTerminates ==
    /\ [](\A t \in Threads : Len(stack[t]) <= MaxDepth)
    /\ \A t \in Threads : Running(t) ~> ~Running(t)

\* Calls on the two resolvers that include each other have ended, one by
\* raising and one by returning.
C8_Witness ==
    /\ ~Running("t1")
    /\ ret["t1"].status = "raised"
    /\ populating["t1"] = {"outer", "inner"}
    /\ \E P \in PathPrefixes : P \in DOMAIN _app_dict["inner"]

(***************************************************************************)
(* C9.  A step of a thread whose current prefix is P leaves, on every      *)
(* resolver, what the three caches hold under every other prefix: the key, *)
(* the table object and its content.                                       *)
(***************************************************************************)
SameAt(old, new, r, P) ==
    /\ (P \in DOMAIN old[r]) = (P \in DOMAIN new[r])
    /\ P \in DOMAIN old[r] =>
           /\ new[r][P] = old[r][P]
           /\ tables'[old[r][P]] = tables[old[r][P]]

\* C9: a step of a thread leaves every cache entry of every resolver under
\* a prefix other than the thread's current one as it was.
C9_OtherPrefixesUntouched ==
    [][\A t \in Threads :
        Moves(t) =>
            \A r \in Resolvers :
                \A P2 \in PathPrefixes \ {PathPrefixOf(current_site[t])} :
                    /\ SameAt(_reverse_dict, _reverse_dict', r, P2)
                    /\ SameAt(_namespace_dict, _namespace_dict', r, P2)
                    /\ SameAt(_app_dict, _app_dict', r, P2)]_vars

\* A thread is storing the tables of a build for one prefix on a resolver
\* that holds tables for another prefix.
C9_Witness ==
    \E t \in Threads :
        /\ AtPc(t, "populate", "store_app")
        /\ \E P2 \in DOMAIN _app_dict[Top(t).self] : P2 # Top(t).path_prefix

(***************************************************************************)
(* C10.  The keys and the pattern strings of a stored reverse table.       *)
(***************************************************************************)
\* The callbacks and names of the leaves of r that are reachable without
\* crossing an include that has a namespace.
RECURSIVE LeafKeysFrom(_, _)
LeafKeysFrom(r, seen) ==
    LET ps == url_patterns(r)
        own(k) ==
            IF ~ps[k].is_resolver
            THEN {ps[k].callback} \cup
                 (IF ps[k].name # NoName THEN {ps[k].name} ELSE {})
            ELSE IF namespace(ps[k].resolver) # NoNamespace
                    \/ ps[k].resolver \in seen
            THEN {}
            ELSE LeafKeysFrom(ps[k].resolver, seen \cup {ps[k].resolver})
    IN  UNION {own(k) : k \in 1..Len(ps)}

LeafKeys(r) == LeafKeysFrom(r, {r})

StartsWith(p, head) == Len(p) >= Len(head) /\ SubSeq(p, 1, Len(head)) = head

\* The path prefixes of tenants.
TenantPrefixes == PathPrefixes \ {"_"}

\* Every pattern of r is an include of a resolver built by site_patterns.
IncludesSiteOnly(r) ==
    \A k \in 1..Len(url_patterns(r)) :
        /\ url_patterns(r)[k].is_resolver
        /\ url_patterns(r)[k].resolver \in SiteResolvers

\* The entries of the reverse table that resolver r holds under prefix P.
Entries(r, P) ==
    LET lookups == tables[_reverse_dict[r][P]].lookups
    IN  UNION {{lookups[key][k] : k \in 1..Len(lookups[key])} : key \in DOMAIN lookups}

(***************************************************************************)
(* C10 as claimed.  A reverse table stored under a tenant prefix P has a   *)
(* key for every leaf name and handler, and the pattern string of every    *)
(* one of its entries starts with P.  It fails: a resolver stores its own  *)
(* leaves under '<fragment>', whatever the prefix.                         *)
(***************************************************************************)
C10_EveryEntryPrefixed ==
    \A r \in Resolvers : \A P \in DOMAIN _reverse_dict[r] :
        /\ LeafKeys(r) \subseteq DOMAIN tables[_reverse_dict[r][P]].lookups
        /\ P \in TenantPrefixes =>
               \A e \in Entries(r, P) : StartsWith(e.pat, <<P>>)

(***************************************************************************)
(* C10 as amended.  A reverse table stored under P has a key for every     *)
(* leaf name and handler.  The pattern string of an entry starts with      *)
(* 'P/' when P is a tenant prefix and the entry was merged from a resolver *)
(* built by site_patterns, whose regex is '^P/'; every other entry holds   *)
(* no tenant prefix at all.  So the tables of a resolver that includes a   *)
(* site_patterns resolver differ from prefix to prefix on every leaf, and  *)
(* the tables of the other resolvers do not.                               *)
(***************************************************************************)
C10_PrefixFromSiteInclude ==
    \A r \in Resolvers : \A P \in DOMAIN _reverse_dict[r] :
        /\ LeafKeys(r) \subseteq DOMAIN tables[_reverse_dict[r][P]].lookups
        /\ \A e \in Entries(r, P) :
               IF IncludesSiteOnly(r) /\ P \in TenantPrefixes
               THEN StartsWith(e.pat, <<P, "/">>)
               ELSE \A j \in 1..Len(e.pat) : e.pat[j] \notin TenantPrefixes
        /\ \A P2 \in DOMAIN _reverse_dict[r] \ {P} :
               IF IncludesSiteOnly(r)
               THEN Entries(r, P) \cap Entries(r, P2) = {}
               ELSE Entries(r, P) = Entries(r, P2)

\* A resolver that includes the site resolver and the site resolver itself
\* hold tables for two tenants.
C10_Witness ==
    /\ {"a", "b"} \subseteq DOMAIN _reverse_dict["root"]
    /\ {"a", "b"} \subseteq DOMAIN _reverse_dict["site"]

(***************************************************************************)
(* C11.  A read of reverse_dict that follows, on the same thread and with  *)
(* the same prefix, a read of reverse_dict of the same resolver that       *)
(* returned a table, returns the same table object with the same content   *)
(* and performs no build: no frame is pushed, no table is created, no      *)
(* cache changes.                                                          *)
(***************************************************************************)
C11_SecondReadSameTable ==
    [][\A t \in Threads :
        (/\ ~Running(t)
         /\ ret[t].status = "value"
         /\ ret[t].which = "reverse"
         /\ ret[t].path_prefix = _get_path_prefix(t)
         /\ calls' = calls + 1
         /\ \/ ret'[t].status = "value"
                /\ ret'[t].self = ret[t].self /\ ret'[t].which = "reverse"
            \/ Len(stack'[t]) > 0
                /\ stack'[t][1].self = ret[t].self
                /\ stack'[t][1].which = "reverse")
        => /\ stack'[t] = <<>>
           /\ ret'[t].status = "value"
           /\ ret'[t].b = ret[t].b
           /\ ~ret'[t].populate_called
           /\ tables' = tables
           /\ nbuilds' = nbuilds
           /\ UNCHANGED caches]_vars

\* The second call of the thread was a read of root.reverse_dict that found
\* the table the first call had built.
C11_Witness ==
    /\ calls = 2
    /\ ~Running("t1")
    /\ ret["t1"].status = "value"
    /\ ret["t1"].self = "root" /\ ret["t1"].which = "reverse"
    /\ ~ret["t1"].populate_called
    /\ ret["t1"].b = <<"t1", 1>>

(***************************************************************************)
(* C12.  No key is ever removed from a cache: a prefix that is a key of    *)
(* _reverse_dict, _namespace_dict or _app_dict of a resolver is a key of   *)
(* it after every step of every thread.                                    *)
(***************************************************************************)
C12_KeysNeverEvicted ==
    [][\A r \in Resolvers :
        /\ DOMAIN _reverse_dict[r] \subseteq DOMAIN _reverse_dict'[r]
        /\ DOMAIN _namespace_dict[r] \subseteq DOMAIN _namespace_dict'[r]
        /\ DOMAIN _app_dict[r] \subseteq DOMAIN _app_dict'[r]]_vars

\* A resolver holds tables for two prefixes in each of its caches.
C12_Witness ==
    \E r \in Resolvers :
        /\ Cardinality(DOMAIN _reverse_dict[r]) >= 2
        /\ Cardinality(DOMAIN _namespace_dict[r]) >= 2
        /\ Cardinality(DOMAIN _app_dict[r]) >= 2

(***************************************************************************)
(* C13.  The prefix a thread uses as cache key is "_" exactly when the     *)
(* thread has no current site or its current site has an empty             *)
(* path_prefix, and is the path_prefix of the current site otherwise; it   *)
(* is the prefix of every accessor and build the thread has under way.     *)
(* The regex of the site resolver, as the thread reads it, is '^' for "_"  *)
(* and '^<prefix>/' otherwise, whatever the sites of earlier reads were.   *)
(* It fails for a tenant whose path_prefix is the string "_": the prefix   *)
(* is "_" although a tenant is active, and the regex of the site resolver  *)
(* is '^' instead of '^_/' (line 154 compares with "_" alone).             *)
(***************************************************************************)
C13_PrefixAndSiteRegex ==
    \A t \in Threads :
        LET site == current_site[t]
            sentinel == site.is_none \/ site.path_prefix = ""
        IN  /\ (_get_path_prefix(t) = "_") <=> sentinel
            /\ ~sentinel => _get_path_prefix(t) = site.path_prefix
            /\ \A k \in 1..Len(stack[t]) :
                   stack[t][k].pc # "enter" =>
                       stack[t][k].path_prefix =
                           (IF sentinel THEN "_" ELSE site.path_prefix)
            /\ RegexPattern(t, "site") =
                   (IF sentinel THEN <<"^">> ELSE <<"^", site.path_prefix, "/">>)

(***************************************************************************)
(* C14.  url_sites raises ImproperlyConfigured for a missing or empty view *)
(* (None, an empty string, an empty list or tuple), raises TypeError for a *)
(* non-empty view that is neither callable nor a list or tuple, and in     *)
(* every other case returns one node: a pattern for a callable, a resolver *)
(* for a list or tuple.  It fails: the url_sites of lines 197-215 returns  *)
(* a pattern for None and for a non-empty string and raises IndexError for *)
(* an empty list or tuple, and the url_sites of lines 171-194 raises       *)
(* ValueError for a list or tuple that has not three items.                *)
(***************************************************************************)
C14_UrlSitesFailsFast ==
    url_result # NoUrlResult =>
        LET view == url_call.view
        IN  IF ~Truthy(view)
            THEN url_result = UrlRaise("ImproperlyConfigured")
            ELSE IF ~Callable(view) /\ ~IsListOrTuple(view)
            THEN url_result = UrlRaise("TypeError")
            ELSE IF Callable(view)
            THEN url_result.kind = "pattern"
            ELSE url_result.kind = "resolver"

(***************************************************************************)
(* C15.  get_site_or_none returns None when no row has the subdomain;      *)
(* otherwise it returns a row that has the subdomain, one with a non-empty *)
(* domain if any matching row has one, and the one with the highest        *)
(* primary key among the matching rows of its rank (with a domain, or      *)
(* without).  It fails: the rows are ordered by the value of domain, so    *)
(* of two rows with different domains the greater domain wins whatever the *)
(* primary keys, and a database that sorts NULL above every value puts the *)
(* rows without a domain first.                                            *)
(***************************************************************************)
C15_DomainFirstThenNewest ==
    site_result # NoSiteResult =>
        LET q == site_query
            HasDomain(k) == q.rows[k].domain \notin {Null, ""}
        IN  IF Matching(q) = {}
            THEN site_result = SiteNone
            ELSE /\ site_result.kind = "Site"
                 /\ site_result.pk \in Matching(q)
                 /\ (\E j \in Matching(q) : HasDomain(j)) => HasDomain(site_result.pk)
                 /\ \A j \in Matching(q) :
                        HasDomain(j) = HasDomain(site_result.pk) => site_result.pk >= j

(***************************************************************************)
(* C16.  The populating flag is per thread.  A _populate call of thread b  *)
(* on a resolver whose flag is not set on b starts its walk under the      *)
(* prefix of b, whatever the flags of the other threads are; the steps of  *)
(* b leave the flags of every other thread as they are, and what b stores  *)
(* it stores under its own prefix.                                         *)
(***************************************************************************)
C16_GuardIsPerThread ==
    [][\A a, b \in Threads :
        (a # b /\ Moves(b)) =>
            /\ (AtPc(b, "populate", "enter") /\ Top(b).self \notin populating[b])
                   => /\ Len(stack'[b]) = Len(stack[b])
                      /\ stack'[b][Len(stack[b])].pc = "loop"
                      /\ stack'[b][Len(stack[b])].path_prefix = _get_path_prefix(b)
                      /\ populating'[b] = populating[b] \cup {Top(b).self}
            /\ populating'[a] = populating[a]
            /\ \A r \in Resolvers :
                   /\ DOMAIN _reverse_dict'[r] \subseteq
                          DOMAIN _reverse_dict[r] \cup {_get_path_prefix(b)}
                   /\ DOMAIN _namespace_dict'[r] \subseteq
                          DOMAIN _namespace_dict[r] \cup {_get_path_prefix(b)}
                   /\ DOMAIN _app_dict'[r] \subseteq
                          DOMAIN _app_dict[r] \cup {_get_path_prefix(b)}]_vars

\* Both threads are in the middle of a build of the same resolver, each
\* with its own flag set, and one of them has finished its walk and has
\* stored its reverse and namespace tables.
C16_Witness ==
    \E a, b \in Threads :
        /\ a # b
        /\ AtPc(b, "populate", "store_app")
        /\ Building(a, Top(b).self)
        /\ IsPopulating(a, Top(b).self) /\ IsPopulating(b, Top(b).self)
        /\ _namespace_dict[Top(b).self][Top(b).path_prefix] = Top(b).b

(***************************************************************************)
(* C17.  In a stored reverse table the entries listed under one name or    *)
(* handler are in reverse declaration order: of two leaves of the same     *)
(* resolver that share the key, the entry of the one declared later comes  *)
(* before the entry of the one declared earlier.                           *)
(***************************************************************************)
\* The keys a leaf is registered under.
KeysOfLeaf(pattern) ==
    {pattern.callback} \cup (IF pattern.name # NoName THEN {pattern.name} ELSE {})

C17_ReverseDeclarationOrder ==
    \A r \in Resolvers : \A P \in DOMAIN _reverse_dict[r] :
        LET ps == url_patterns(r)
            lookups == tables[_reverse_dict[r][P]].lookups
        IN  \A i, j \in 1..Len(ps) :
                (i < j /\ ~ps[i].is_resolver /\ ~ps[j].is_resolver) =>
                    \A key \in KeysOfLeaf(ps[i]) \cap KeysOfLeaf(ps[j]) :
                        /\ key \in DOMAIN lookups
                        /\ \E m, n \in 1..Len(lookups[key]) :
                               /\ m < n
                               /\ <<"^">> \o lookups[key][m].pat = ps[j].regex
                               /\ <<"^">> \o lookups[key][n].pat = ps[i].regex

\* The table of the site resolver, whose two leaves share the name 'page',
\* is stored for a tenant, and lists two entries under the name.
C17_Witness ==
    \E P \in TenantPrefixes :
        /\ P \in DOMAIN _reverse_dict["site"]
        /\ Len(tables[_reverse_dict["site"][P]].lookups["page"]) = 2
        /\ ~Running("t1")

(***************************************************************************)
(* C18.  What an include contributes to the tables its parent stores.      *)
(***************************************************************************)
\* The regex fragment of the include of resolver c, for prefix P, without
\* its leading anchor.
Fragment(c, P) ==
    LET regex == IF c \in SiteResolvers
                 THEN (IF P = "_" THEN <<"^">> ELSE <<"^", P, "/">>)
                 ELSE resolver_regex(c)
    IN  IF regex # <<>> /\ regex[1] = "^"
        THEN SubSeq(regex, 2, Len(regex)) ELSE regex

\* The includes of resolver r, with or without a namespace.
Includes(r, namespaced) ==
    {url_patterns(r)[k].resolver : k \in
        {k \in 1..Len(url_patterns(r)) :
            /\ url_patterns(r)[k].is_resolver
            /\ (namespace(url_patterns(r)[k].resolver) # NoNamespace) = namespaced}}

\* The defaults of a leaf under the declared defaults of an include: the
\* include wins on a key of both.
DefaultsUnder(c, defaults) ==
    [k \in DOMAIN defaults \cup DOMAIN default_kwargs(c) |->
        IF k \in DOMAIN default_kwargs(c) THEN default_kwargs(c)[k]
        ELSE defaults[k]]

\* Entry e of a parent is entry e2 of the included resolver c, merged.
MergedFrom(e, e2, c, P) ==
    /\ e.pat = Fragment(c, P) \o e2.pat
    /\ e.defaults = DefaultsUnder(c, e2.defaults)

\* Entry e, listed under key, is the entry of a leaf of resolver r.
OwnLeafEntry(e, key, r) ==
    \E k \in 1..Len(url_patterns(r)) :
        /\ ~url_patterns(r)[k].is_resolver
        /\ key \in KeysOfLeaf(url_patterns(r)[k])
        /\ <<"^">> \o e.pat = url_patterns(r)[k].regex
        /\ e.defaults = url_patterns(r)[k].default_args

\* C18: in the tables a resolver stores under P, an include with a
\* namespace is registered under its namespace with its fragment, its
\* namespace is listed under its app name, and it adds nothing to the
\* reverse table; an include without namespace adds every entry of its own
\* reverse table for P, with its fragment prepended and its declared
\* defaults winning, and every one of its namespaces with its fragment
\* prepended.
C18_IncludeContribution ==
    \A r \in Resolvers : \A P \in DOMAIN _app_dict[r] :
        LET lookups == tables[_reverse_dict[r][P]].lookups
            namespaces == tables[_namespace_dict[r][P]].namespaces
            apps == tables[_app_dict[r][P]].apps
            child(c) == tables[_reverse_dict[c][P]].lookups
            child_ns(c) == tables[_namespace_dict[c][P]].namespaces
        IN  /\ \A c \in Includes(r, TRUE) :
                   /\ namespace(c) \in DOMAIN namespaces
                   /\ namespaces[namespace(c)] =
                          [prefix |-> Fragment(c, P), resolver |-> c]
                   /\ app_name(c) # "-" =>
                          /\ app_name(c) \in DOMAIN apps
                          /\ \E k \in 1..Len(apps[app_name(c)]) :
                                 apps[app_name(c)][k] = namespace(c)
            /\ \A c \in Includes(r, FALSE) :
                   /\ P \in DOMAIN _reverse_dict[c] /\ P \in DOMAIN _namespace_dict[c]
                   /\ \A key \in DOMAIN child(c) : \A k \in 1..Len(child(c)[key]) :
                          /\ key \in DOMAIN lookups
                          /\ \E m \in 1..Len(lookups[key]) :
                                 MergedFrom(lookups[key][m], child(c)[key][k], c, P)
                   /\ \A n \in DOMAIN child_ns(c) :
                          /\ n \in DOMAIN namespaces
                          /\ namespaces[n] =
                                 [prefix |-> Fragment(c, P) \o child_ns(c)[n].prefix,
                                  resolver |-> child_ns(c)[n].resolver]
            /\ \A key \in DOMAIN lookups : \A m \in 1..Len(lookups[key]) :
                   \/ OwnLeafEntry(lookups[key][m], key, r)
                   \/ \E c \in Includes(r, FALSE) :
                          /\ key \in DOMAIN child(c)
                          /\ \E k \in 1..Len(child(c)[key]) :
                                 MergedFrom(lookups[key][m], child(c)[key][k], c, P)

\* The two resolvers that include each other hold their tables for a
\* tenant: 'outer' registered 'inner' under its namespace, 'inner' merged
\* the leaf of 'outer', whose defaults collide with those of the include.
C18_Witness ==
    \E P \in TenantPrefixes :
        /\ P \in DOMAIN _app_dict["outer"] /\ P \in DOMAIN _app_dict["inner"]
        /\ "o_view" \in DOMAIN tables[_reverse_dict["inner"][P]].lookups
        /\ "x" \in DOMAIN tables[_namespace_dict["outer"][P]].namespaces
        /\ ~Running("t1")

(***************************************************************************)
(* C19.  The order in which a build publishes its tables.                  *)
(***************************************************************************)
\* Every key of _app_dict is a key of _namespace_dict, and every key of
\* _namespace_dict is a key of _reverse_dict.
C19_KeysNested ==
    \A r \in Resolvers :
        /\ DOMAIN _app_dict[r] \subseteq DOMAIN _namespace_dict[r]
        /\ DOMAIN _namespace_dict[r] \subseteq DOMAIN _reverse_dict[r]

\* The step in which an exception unwinds the calls of a thread changes no
\* cache, and no table of a build it unwinds is in a cache.
C19_FailedBuildPublishesNone ==
    \A t \in Threads :
        (ret'[t] # ret[t] /\ ret'[t].status = "raised") =>
            /\ UNCHANGED caches
            /\ \A k \in Builds(t) : \A which \in Accessors :
                   stack[t][k].b \notin Stored(which)

\* C19: in every state, under every interleaving, a prefix that is a key of
\* _app_dict is a key of _namespace_dict and a prefix that is a key of
\* _namespace_dict is a key of _reverse_dict; a build that fails publishes
\* no table.
C19_PublishedInOrder ==
    []C19_KeysNested /\ [][C19_FailedBuildPublishesNone]_vars

\* A build of one thread has failed while a build of the other thread has
\* published its reverse table and not yet its namespace table.
C19_Witness ==
    \E t, u \in Threads :
        /\ ~Running(t) /\ ret[t].status = "raised"
        /\ AtPc(u, "populate", "store_namespace")
        /\ Top(u).path_prefix \in DOMAIN _reverse_dict[Top(u).self]
        /\ Top(u).path_prefix \notin DOMAIN _namespace_dict[Top(u).self]

(***************************************************************************)
(* C20.  The tables of a build that no other thread interleaves with.      *)
(***************************************************************************)
\* The regex of the include of resolver c for prefix P.
RegexFor(c, P) ==
    IF c \in SiteResolvers
    THEN (IF P = "_" THEN <<"^">> ELSE <<"^", P, "/">>)
    ELSE resolver_regex(c)

\* The tables that the walk of resolver r for prefix P makes of tbl from its
\* i-th step on, every included resolver being built by a walk of its own.
RECURSIVE SequentialWalk(_, _, _, _)
SequentialWalk(r, P, i, tbl) ==
    LET ps == url_patterns(r)
        pattern == ps[Len(ps) + 1 - i]
        c == pattern.resolver
        built == SequentialWalk(c, P, 1,
                     [lookups |-> EmptyDict, namespaces |-> EmptyDict,
                      apps |-> EmptyDict])
    IN  IF i > Len(ps) THEN tbl
        ELSE IF ~pattern.is_resolver
        THEN SequentialWalk(r, P, i + 1,
                 [tbl EXCEPT !.lookups = LeafLookups(@, pattern)])
        ELSE IF namespace(c) # NoNamespace
        THEN SequentialWalk(r, P, i + 1,
                 [tbl EXCEPT
                     !.namespaces = (namespace(c) :>
                         [prefix |-> Fragment(c, P), resolver |-> c]) @@ @,
                     !.apps = IF app_name(c) = "-" THEN @
                              ELSE (app_name(c) :>
                                       Append(IF app_name(c) \in DOMAIN @
                                              THEN @[app_name(c)] ELSE <<>>,
                                              namespace(c))) @@ @])
        ELSE SequentialWalk(r, P, i + 1,
                 [lookups |-> MergeLookups(tbl.lookups, DOMAIN built.lookups,
                                  built.lookups, RegexFor(c, P), default_kwargs(c)),
                  namespaces |-> MergeNamespaceDict(tbl.namespaces,
                                     built.namespaces, RegexFor(c, P)),
                  apps |-> MergeAppDict(tbl.apps, built.apps)])

\* The tables of one sequential build, by resolver and prefix.
SequentialTables ==
    [r \in Resolvers |-> [P \in PathPrefixes |->
        SequentialWalk(r, P, 1,
            [lookups |-> EmptyDict, namespaces |-> EmptyDict, apps |-> EmptyDict])]]

\* C20: whatever the interleaving of the builds of two threads, the reverse,
\* namespace and app tables stored under a prefix have the content of the
\* tables of one sequential build for that prefix.
C20_SameAsSequentialBuild ==
    \A r \in Resolvers :
        /\ \A P \in DOMAIN _reverse_dict[r] :
               tables[_reverse_dict[r][P]].lookups = SequentialTables[r][P].lookups
        /\ \A P \in DOMAIN _namespace_dict[r] :
               tables[_namespace_dict[r][P]].namespaces
                   = SequentialTables[r][P].namespaces
        /\ \A P \in DOMAIN _app_dict[r] :
               tables[_app_dict[r][P]].apps = SequentialTables[r][P].apps

\* Both threads have finished a build of the same resolver for the same
\* prefix, and their stores interleaved: the reverse table stored last is
\* the one of one thread, the app table stored last the one of the other.
C20_Witness ==
    \E r \in Resolvers : \E P \in DOMAIN _app_dict[r] :
        /\ ~Running("t1") /\ ~Running("t2")
        /\ ret["t1"].status = "value" /\ ret["t2"].status = "value"
        /\ Owner(_reverse_dict[r][P]) # Owner(_app_dict[r][P])
        /\ Len(tables[_reverse_dict[r][P]].lookups["page"]) = 2
====
